---- MODULE Spec2Model ----
(***************************************************************************)
(* Model of mkdocs_gen_files/plugin.py: the GenFilesPlugin event handlers  *)
(* on_files, on_page_content and on_post_build, together with the          *)
(* FilesEditor context manager they drive (mkdocs_gen_files/editor.py,     *)
(* which plugin.py imports; its behaviour is taken from the design         *)
(* document: touched-path set, edit-path registry, reconciliation).        *)
(*                                                                         *)
(* Python strings are sequences of tokens (path segments and separators),  *)
(* so that "ends with a slash" and "starts with ? or #" are computed.      *)
(* An optional value (str | None) is a record [some, v].                   *)
(***************************************************************************)
EXTENDS Integers, Sequences, FiniteSets, TLC

VARIABLES
    pc,                   \* position of the build: idle, script, exit, finalizing, returned, raised, built
    cur,                  \* index in config.scripts of the script being run
    ops,                  \* number of file operations the scripts performed in this run
    orig,                 \* the host's file collection as passed to on_files
    files,                \* the host's `files` object as on_files sees it
    ctx,                  \* FilesEditor context: Idle, Active, Finalizing, Closed
    ctxTrace,             \* every state the context has been in, in order
    touched,              \* FilesEditor: logical paths written, in first-write order
    staged,               \* FilesEditor: staged content of each touched path
    ed_edit_paths,        \* FilesEditor.edit_paths
    ed_files,             \* FilesEditor.files
    outcome,              \* per script: none, running, ok, exit1 (truthy SystemExit), raised,
                          \* escaped (PathEscapeError)
    curWrites,            \* paths written by the running script
    zeroExitWrites,       \* paths written by scripts that ended with a falsy SystemExit
    error,                \* the exception on_files raised, if any
    ret_files,            \* the collection on_files returned
    self_dir_name,        \* GenFilesPlugin._dir_name
    self_should_cleanup,  \* GenFilesPlugin._should_cleanup
    self_edit_paths,      \* GenFilesPlugin._edit_paths
    dirs,                 \* staging directories that exist on disk
    build,                \* number of builds (on_files calls) started on this plugin instance
    rendered,             \* page paths on_page_content was called for in this build
    lastPage,             \* the last on_page_content call: whether it popped an entry, the value
                          \* returned, page.edit_url after it
    warnings,             \* log.warning events emitted by on_post_build in this build
    nested,               \* the context of an on_files call made while a script of the build
                          \* runs: none, Rejected, Active
    prev                  \* the previous build on this plugin instance: what its scripts wrote,
                          \* the collection it produced, the registry it left

vars == <<pc, cur, ops, orig, files, ctx, ctxTrace, touched, staged, ed_edit_paths,
          ed_files, outcome, curWrites, zeroExitWrites, error, ret_files,
          self_dir_name, self_should_cleanup, self_edit_paths, dirs, build,
          rendered, lastPage, warnings, nested, prev>>

editorVars == <<ctx, ctxTrace, touched, staged, ed_edit_paths, ed_files>>
pluginVars == <<self_dir_name, self_should_cleanup, self_edit_paths>>
pageVars   == <<rendered, lastPage, warnings>>
scriptVars == <<outcome, curWrites, zeroExitWrites>>
buildVars  == <<nested, prev>>

-----------------------------------------------------------------------------
(* Values *)

NoneV   == [some |-> FALSE, v |-> <<>>]
Some(s) == [some |-> TRUE, v |-> s]

\* Python truthiness of a str | None value: None and "" are falsy.
Truthy(o) == o.some /\ o.v # <<>>

Range(s) == { s[i] : i \in DOMAIN s }

\* Bounds of the model.
MaxOps == 3
MaxBuildOps == 2
MaxBuilds == 2

\* Logical paths, staged contents and edit paths the scripts may use.
Paths    == {"a.md", "b.md", "c.md"}
Contents == {"v1", "v2"}
EditPathValues == {NoneV, Some(<<>>), Some(<<"src", "/", "gen.py">>)}

\* config.scripts: the configured list of script file names.
scripts == <<"gen_a.py", "gen_b.py">>

\* SystemExit codes a script may terminate with: sys.exit(), sys.exit(0),
\* sys.exit(1), sys.exit(""), sys.exit("boom").
ExitCode(k, n, s) == [kind |-> k, n |-> n, s |-> s]
ExitCodes == {ExitCode("none", 0, ""), ExitCode("int", 0, ""), ExitCode("int", 1, ""),
              ExitCode("str", 0, ""), ExitCode("str", 0, "boom")}

\* The termination requests with a zero (falsy) status.
FalsyExitCodes == {ExitCode("none", 0, ""), ExitCode("int", 0, ""), ExitCode("str", 0, "")}

\* `if e.code != 0`: only the integer zero is a success.
CodeTruthyNotZero(code) == ~(code.kind = "int" /\ code.n = 0)

\* `if isinstance(e.code, int) and e.code`: a message string is no failure.
CodeTruthyIntOnly(code) == code.kind = "int" /\ code.n # 0

\* Line 55, `if e.code:` -- Python truthiness of the exit code.
CodeTruthy(code) ==
    CASE code.kind = "none" -> FALSE
      [] code.kind = "int"  -> code.n # 0
      [] code.kind = "str"  -> code.s # ""

\* A host file record (mkdocs File): identity is (origin, src_uri).
File(p, o, c) == [src_uri |-> p, origin |-> o, content |-> c, edit_uri |-> NoneV]

HostCollections == { <<File("a.md", "host", "host")>>,
                     <<File("b.md", "host", "host"), File("a.md", "host", "host")>> }

NoError == [kind |-> "none", script |-> ""]

\* A dict with no key.
EmptyMap == [p \in {} |-> NoneV]

\* d[k] = v of a Python dict.
MapPut(d, k, v) == [p \in DOMAIN d \cup {k} |-> IF p = k THEN v ELSE d[p]]

\* d.pop(k): the dict without key k.
MapDel(d, k) == [p \in DOMAIN d \ {k} |-> d[p]]

\* Staging directory names: the configured directory, or the unique name
\* tempfile.mkdtemp returns in build b.
NoDir        == <<"unset", 0>>
CustomDir(d) == <<"custom", 0>>
TempDir(b)   == <<"tmp", b>>

\* The page record before any on_page_content call.
NoPage == [called |-> FALSE, popped |-> FALSE, ret |-> "", edit_url |-> NoneV]

SrcUris(coll) == { coll[i].src_uri : i \in DOMAIN coll }

\* No previous build.
NoPrev == [some |-> FALSE, touched |-> <<>>, staged |-> EmptyMap, final |-> <<>>,
           registry |-> EmptyMap]

-----------------------------------------------------------------------------
(* FilesEditor: the overlay editor *)

\* TouchedPathSet: a write registers the path once, at its first write.
Touch(t, p) == IF p \in Range(t) THEN t ELSE Append(t, p)

\* FileSetReconciler: replace the entry with the same logical path in place,
\* otherwise append at the end.
PutFile(coll, f) ==
    IF f.src_uri \in SrcUris(coll)
    THEN [i \in DOMAIN coll |-> IF coll[i].src_uri = f.src_uri THEN f ELSE coll[i]]
    ELSE Append(coll, f)

RECURSIVE Reconcile(_, _, _)
Reconcile(coll, t, st) ==
    IF t = <<>> THEN coll
    ELSE Reconcile(PutFile(coll, File(Head(t), "generated", st[Head(t)])), Tail(t), st)

\* The paths a script may pass to open, as segment sequences: inside the
\* overlay root, inside it after a "..", and outside it.
RawPaths == { <<"docs", "..", "c.md">>,
              <<"..", "..", "etc", "passwd">>,
              <<"docs", "..", "..", "c.md">> }

\* Normalization of a raw path against the overlay root: "." is dropped, ".."
\* removes the segment before it; a ".." with no segment before it leaves the
\* root.
RECURSIVE NormalizeFrom(_, _)
NormalizeFrom(acc, rest) ==
    IF rest = <<>> THEN [escapes |-> FALSE, path |-> acc]
    ELSE IF Head(rest) = "." THEN NormalizeFrom(acc, Tail(rest))
    ELSE IF Head(rest) = ".."
         THEN IF acc = <<>>
              THEN [escapes |-> TRUE, path |-> SelectSeq(rest, LAMBDA x : x # "..")]
              ELSE NormalizeFrom(SubSeq(acc, 1, Len(acc) - 1), Tail(rest))
    ELSE NormalizeFrom(Append(acc, Head(rest)), Tail(rest))

Normalize(raw) == NormalizeFrom(<<>>, raw)

\* The logical path of a raw path: the normalized paths of the model are file
\* names directly under the root.
LogicalPath(raw) == Normalize(raw).path[Len(Normalize(raw).path)]

\* OverlayDirectory.open: does the normalized path resolve outside the root?
Escapes(raw) == Normalize(raw).escapes

-----------------------------------------------------------------------------
Init ==
    /\ pc = "idle"
    /\ cur = 0
    /\ ops = 0
    /\ orig \in HostCollections
    /\ files = orig
    /\ ctx = "Idle"
    /\ ctxTrace = <<"Idle">>
    /\ touched = <<>>
    /\ staged = EmptyMap
    /\ ed_edit_paths = EmptyMap
    /\ ed_files = <<>>
    /\ outcome = [i \in DOMAIN scripts |-> "none"]
    /\ curWrites = {}
    /\ zeroExitWrites = {}
    /\ error = NoError
    /\ ret_files = <<>>
    /\ self_dir_name = NoDir
    /\ self_should_cleanup = FALSE
    /\ self_edit_paths = EmptyMap
    /\ dirs = {}
    /\ build = 0
    /\ rendered = {}
    /\ lastPage = NoPage
    /\ warnings = <<>>
    /\ nested = "none"
    /\ prev = NoPrev

-----------------------------------------------------------------------------
(* on_files *)

\* Lines 39-50 with `self._should_cleanup = bool(self.config.cleanup)` in both
\* branches: the cleanup option is honoured for a configured directory too.
OnFilesEnterCleanupAny(directory, cleanup) ==
    /\ pc = "idle"
    /\ build' = build + 1
    /\ IF Truthy(directory)
       THEN /\ self_dir_name' = CustomDir(directory.v)
            /\ dirs' = dirs \cup {CustomDir(directory.v)}
       ELSE /\ self_dir_name' = TempDir(build')
            /\ dirs' = dirs \cup {TempDir(build')}
    /\ self_should_cleanup' = cleanup
    /\ ctx' = "Active"
    /\ ctxTrace' = Append(ctxTrace, "Active")
    /\ pc' = "script"
    /\ cur' = 1
    /\ outcome' = [outcome EXCEPT ![1] = "running"]
    /\ UNCHANGED <<ops, orig, files, touched, staged, ed_edit_paths, ed_files,
                   curWrites, zeroExitWrites, error, ret_files, self_edit_paths>>
    /\ UNCHANGED pageVars
    /\ UNCHANGED buildVars

\* Lines 39-50: choose the staging directory, then enter the FilesEditor
\* context and start the first script.
OnFilesEnter(directory, cleanup) ==
    /\ pc = "idle"
    /\ build' = build + 1
    /\ IF Truthy(directory)
       THEN /\ self_dir_name' = CustomDir(directory.v)
            /\ dirs' = dirs \cup {CustomDir(directory.v)}
            /\ self_should_cleanup' = FALSE
       ELSE /\ self_dir_name' = TempDir(build')
            /\ dirs' = dirs \cup {TempDir(build')}
            /\ self_should_cleanup' = cleanup
    /\ ctx' = "Active"
    /\ ctxTrace' = Append(ctxTrace, "Active")
    /\ IF scripts = <<>>
       THEN /\ pc' = "exit"
            /\ UNCHANGED <<cur, outcome>>
       ELSE /\ pc' = "script"
            /\ cur' = 1
            /\ outcome' = [outcome EXCEPT ![1] = "running"]
    /\ UNCHANGED <<ops, orig, files, touched, staged, ed_edit_paths, ed_files,
                   curWrites, zeroExitWrites, error, ret_files, self_edit_paths>>
    /\ UNCHANGED pageVars
    /\ UNCHANGED buildVars

\* The running script opens logical path p for writing and writes c.
ScriptWrite(p, c) ==
    /\ pc = "script"
    /\ ops' = ops + 1
    /\ touched' = Touch(touched, p)
    /\ staged' = MapPut(staged, p, c)
    /\ curWrites' = curWrites \cup {p}
    /\ UNCHANGED <<pc, cur, orig, files, ctx, ctxTrace, ed_edit_paths, ed_files,
                   outcome, zeroExitWrites, error, ret_files, dirs, build>>
    /\ UNCHANGED pluginVars
    /\ UNCHANGED pageVars
    /\ UNCHANGED buildVars

\* The running script calls set_edit_path(p, v).
ScriptSetEditPath(p, v) ==
    /\ pc = "script"
    /\ ops' = ops + 1
    /\ ed_edit_paths' = MapPut(ed_edit_paths, p, v)
    /\ UNCHANGED <<pc, cur, orig, files, ctx, ctxTrace, touched, staged, ed_files,
                   error, ret_files, dirs, build>>
    /\ UNCHANGED scriptVars
    /\ UNCHANGED pluginVars
    /\ UNCHANGED pageVars
    /\ UNCHANGED buildVars

\* The loop of lines 51-56 without the with statement around it: an exception
\* leaves on_files at once, FilesEditor.__exit__ is not run.
LoopStepNoExit(how, zeroExit, err) ==
    /\ outcome[cur] = "running"
    /\ zeroExitWrites' = IF zeroExit THEN zeroExitWrites \cup curWrites
                         ELSE zeroExitWrites
    /\ curWrites' = {}
    /\ error' = err
    /\ IF err = NoError /\ cur < Len(scripts)
       THEN /\ pc' = "script"
            /\ cur' = cur + 1
            /\ outcome' = [outcome EXCEPT ![cur] = how, ![cur + 1] = "running"]
       ELSE /\ pc' = IF err = NoError THEN "exit" ELSE "raised"
            /\ cur' = cur
            /\ outcome' = [outcome EXCEPT ![cur] = how]
    /\ UNCHANGED <<ops, orig, files, ret_files, dirs, build>>
    /\ UNCHANGED editorVars
    /\ UNCHANGED pluginVars
    /\ UNCHANGED pageVars
    /\ UNCHANGED buildVars

\* `except BaseException: pass` around run_path: whatever ends a script, the
\* loop goes on with the next one and on_files returns normally.
LoopStepSwallowing(how, zeroExit, err) ==
    /\ outcome[cur] = "running"
    /\ zeroExitWrites' = IF zeroExit THEN zeroExitWrites \cup curWrites
                         ELSE zeroExitWrites
    /\ curWrites' = {}
    /\ error' = NoError
    /\ IF cur < Len(scripts)
       THEN /\ pc' = "script"
            /\ cur' = cur + 1
            /\ outcome' = [outcome EXCEPT ![cur] = how, ![cur + 1] = "running"]
       ELSE /\ pc' = "exit"
            /\ cur' = cur
            /\ outcome' = [outcome EXCEPT ![cur] = how]
    /\ UNCHANGED <<ops, orig, files, ret_files, dirs, build>>
    /\ UNCHANGED editorVars
    /\ UNCHANGED pluginVars
    /\ UNCHANGED pageVars
    /\ UNCHANGED buildVars

\* Lines 51-56: the loop over config.scripts after runpy.run_path(file_name)
\* ended with `how` (ok, exit1, raised); zeroExit tells that the script raised
\* SystemExit with a falsy code. A script that returned or
\* that raised SystemExit with a falsy code is followed by the next script; the
\* last script, or an exception leaving the loop, leaves the with block.
LoopStep(how, zeroExit, err) ==
    /\ outcome[cur] = "running"
    /\ zeroExitWrites' = IF zeroExit THEN zeroExitWrites \cup curWrites
                         ELSE zeroExitWrites
    /\ curWrites' = {}
    /\ error' = err
    /\ IF err = NoError /\ cur < Len(scripts)
       THEN /\ pc' = "script"
            /\ cur' = cur + 1
            /\ outcome' = [outcome EXCEPT ![cur] = how, ![cur + 1] = "running"]
       ELSE /\ pc' = "exit"
            /\ cur' = cur
            /\ outcome' = [outcome EXCEPT ![cur] = how]
    /\ UNCHANGED <<ops, orig, files, ret_files, dirs, build>>
    /\ UNCHANGED editorVars
    /\ UNCHANGED pluginVars
    /\ UNCHANGED pageVars
    /\ UNCHANGED buildVars

\* The running script runs to its end.
ScriptReturn ==
    /\ pc = "script"
    /\ LoopStep("ok", FALSE, NoError)

\* Lines 54-56: the running script raises SystemExit(code). What the script
\* asked for (a falsy status or a truthy one) is recorded as its outcome; what
\* on_files does with it is decided by line 55.
ScriptExit(code) ==
    /\ pc = "script"
    /\ LoopStep(IF code \in FalsyExitCodes THEN "ok" ELSE "exit1",
                code \in FalsyExitCodes,
                IF CodeTruthy(code)
                THEN [kind |-> "PluginError", script |-> scripts[cur]]
                ELSE NoError)

\* `except Exception as e: raise PluginError(...)` around run_path: the error of
\* the script reaches the host wrapped in a PluginError.
ScriptRaiseWrapped ==
    /\ pc = "script"
    /\ LoopStep("raised", FALSE, [kind |-> "PluginError", script |-> scripts[cur]])

\* The running script raises an exception other than SystemExit.
ScriptRaise ==
    /\ pc = "script"
    /\ LoopStep("raised", FALSE, [kind |-> "ScriptError", script |-> scripts[cur]])

\* The running script opens raw path `raw` for writing and writes c. A path
\* that normalizes outside the overlay root makes open fail with
\* PathEscapeError before anything is registered or staged; the script does
\* not handle the error, which leaves runpy.run_path like any other.
ScriptOpen(raw, c) ==
    IF Escapes(raw)
    THEN /\ pc = "script"
         /\ LoopStep("escaped", FALSE, [kind |-> "PathEscapeError", script |-> scripts[cur]])
    ELSE ScriptWrite(LogicalPath(raw), c)

\* FilesEditor.__exit__, run by the with statement of line 50 on every way out
\* of the block: the touched paths are reconciled into the file collection.
\* The collection is either the host's own object, changed in place, or a new
\* one that shares the untouched entries.
FilesEditorExit(inPlace) ==
    /\ pc = "exit"
    /\ pc' = "finalizing"
    /\ ctx' = "Finalizing"
    /\ ctxTrace' = Append(ctxTrace, "Finalizing")
    /\ ed_files' = Reconcile(files, touched, staged)
    /\ files' = IF inPlace THEN ed_files' ELSE files
    /\ UNCHANGED <<cur, ops, orig, touched, staged, ed_edit_paths, error, ret_files,
                   dirs, build>>
    /\ UNCHANGED scriptVars
    /\ UNCHANGED pluginVars
    /\ UNCHANGED pageVars
    /\ UNCHANGED buildVars

\* `f.edit_uri = src_path`: the two loop variables of line 60 confused.
SetEditUrisSwapped(coll, lookup, eps) ==
    [i \in DOMAIN coll |->
        IF /\ coll[i].src_uri \in DOMAIN eps
           /\ eps[coll[i].src_uri] # NoneV
           /\ coll[i] \in Range(lookup)
        THEN [coll[i] EXCEPT !.edit_uri = Some(<<coll[i].src_uri>>)]
        ELSE coll[i]]

\* Lines 60-67: every entry of `files` whose path has a non-None edit path
\* gets it as edit_uri. File objects are shared between `files` and ed.files,
\* so an entry of ed.files changes when the same object is found in `files`.
SetEditUris(coll, lookup, eps) ==
    [i \in DOMAIN coll |->
        IF /\ coll[i].src_uri \in DOMAIN eps
           /\ eps[coll[i].src_uri] # NoneV
           /\ coll[i] \in Range(lookup)
        THEN [coll[i] EXCEPT !.edit_uri = eps[coll[i].src_uri]]
        ELSE coll[i]]

\* `return files`: the collection on_files was given.
OnFilesResultHost(edFiles, hostFiles) == hostFiles

\* Line 69: the collection on_files returns.
OnFilesResult(edFiles, hostFiles) == edFiles

\* The end of on_files: the context is closed; an exception that left the with
\* block propagates, otherwise lines 58-69 run.
\* Mutant of line 58: self._edit_paths.update(ed.edit_paths), which keeps what
\* an earlier build left unconsumed.
CopyEditPathsMerging(registry, run_paths) ==
    [p \in DOMAIN registry \cup DOMAIN run_paths |->
        IF p \in DOMAIN run_paths THEN run_paths[p] ELSE registry[p]]

\* Line 58: self._edit_paths = dict(ed.edit_paths). The registry the plugin
\* held before the run takes no part in the new one.
CopyEditPaths(registry, run_paths) == run_paths

OnFilesFinish ==
    /\ pc = "finalizing"
    /\ ctx' = "Closed"
    /\ ctxTrace' = Append(ctxTrace, "Closed")
    /\ IF error = NoError
       THEN /\ pc' = "returned"
            /\ self_edit_paths' = CopyEditPaths(self_edit_paths, ed_edit_paths)
            /\ ed_files' = SetEditUris(ed_files, files, self_edit_paths')
            /\ files' = SetEditUris(files, files, self_edit_paths')
            /\ ret_files' = OnFilesResult(ed_files', files')
       ELSE /\ pc' = "raised"
            /\ UNCHANGED <<self_edit_paths, ed_files, files, ret_files>>
    /\ UNCHANGED <<cur, ops, orig, touched, staged, ed_edit_paths, error, dirs, build,
                   self_dir_name, self_should_cleanup>>
    /\ UNCHANGED scriptVars
    /\ UNCHANGED pageVars
    /\ UNCHANGED buildVars

\* No guard: a context may be entered whatever the state of the other.
ContextFreeAlways(c) == TRUE

\* ScriptRunContext enter: the ambient overlay state is single-owner, a
\* context is entered only while no other one is active.
ContextFree(c) == c # "Active"

\* on_files called again while a script of the running build is inside
\* runpy.run_path (the script drives the build itself). Lines 39-48 run as in
\* any call and choose a staging directory; the FilesEditor of line 50 is
\* entered only if the context of the running build is not active, otherwise
\* the call fails there and its error reaches the script, which may handle it
\* or fail in turn.
OnFilesNested(directory, cleanup) ==
    /\ pc = "script"
    /\ nested = "none"
    /\ build' = build + 1
    /\ IF Truthy(directory)
       THEN /\ self_dir_name' = CustomDir(directory.v)
            /\ dirs' = dirs \cup {CustomDir(directory.v)}
            /\ self_should_cleanup' = FALSE
       ELSE /\ self_dir_name' = TempDir(build')
            /\ dirs' = dirs \cup {TempDir(build')}
            /\ self_should_cleanup' = cleanup
    /\ IF ContextFree(ctx)
       THEN /\ nested' = "Active"
            /\ pc' = "nested"
       ELSE /\ nested' = "Rejected"
            /\ pc' = pc
    /\ UNCHANGED <<cur, ops, orig, files, error, ret_files, self_edit_paths, prev>>
    /\ UNCHANGED editorVars
    /\ UNCHANGED scriptVars
    /\ UNCHANGED pageVars

\* A file collection reduced to logical paths and contents, in order.
ContentView(coll) == [i \in DOMAIN coll |-> <<coll[i].src_uri, coll[i].content>>]

\* The host starts another build with the same plugin instance (a rebuild of
\* `mkdocs serve`): on_files will get a fresh copy of the host's collection
\* and line 50 a new FilesEditor; the plugin keeps its attributes and the
\* staging directories stay on disk. What the build that ended wrote and
\* produced is remembered.
NewBuild ==
    /\ pc \in {"built", "raised"}
    /\ pc' = "idle"
    /\ prev' = [some |-> TRUE, touched |-> touched, staged |-> staged,
                final |-> ContentView(IF pc = "raised" THEN ed_files ELSE ret_files),
                registry |-> self_edit_paths]
    /\ nested' = "none"
    /\ cur' = 0
    /\ ops' = 0
    /\ files' = orig
    /\ ctx' = "Idle"
    /\ ctxTrace' = <<"Idle">>
    /\ touched' = <<>>
    /\ staged' = EmptyMap
    /\ ed_edit_paths' = EmptyMap
    /\ ed_files' = <<>>
    /\ outcome' = [i \in DOMAIN scripts |-> "none"]
    /\ curWrites' = {}
    /\ zeroExitWrites' = {}
    /\ error' = NoError
    /\ ret_files' = <<>>
    /\ rendered' = {}
    /\ lastPage' = NoPage
    /\ warnings' = <<>>
    /\ UNCHANGED <<orig, dirs, build>>
    /\ UNCHANGED pluginVars

-----------------------------------------------------------------------------
(* on_page_content *)

StartsWithQueryOrFragment(s) == s # <<>> /\ s[1] \in {"?", "#"}
EndsWithSlash(s) == s # <<>> /\ s[Len(s)] = "/"

\* The tokens of s up to and including its last "/" (all of s without "/"
\* gets one appended: the URL of a host without a path).
RECURSIVE UpToLastSlash(_)
UpToLastSlash(s) ==
    IF s = <<>> THEN <<>>
    ELSE IF s[Len(s)] = "/" THEN s
    ELSE IF Len(s) = 1 THEN s \o <<"/">>
    ELSE UpToLastSlash(SubSeq(s, 1, Len(s) - 1))

\* urljoin drops the empty segments inside a merged path: a "/" that follows
\* a "/" goes.
RECURSIVE CollapseSlashes(_)
CollapseSlashes(s) ==
    IF Len(s) < 2 THEN s
    ELSE IF s[1] = "/" /\ s[2] = "/" THEN CollapseSlashes(Tail(s))
    ELSE <<s[1]>> \o CollapseSlashes(Tail(s))

\* urllib.parse.urljoin(base, url) on URLs without dot segments: the first
\* token of an absolute URL is its scheme and host.
UrlJoin(base, url) ==
    IF url = <<>> THEN base
    ELSE IF base = <<>> THEN url
    ELSE IF StartsWithQueryOrFragment(url) THEN base \o url
    ELSE IF url[1] = "/" THEN <<base[1]>> \o CollapseSlashes(url)
    ELSE CollapseSlashes(UpToLastSlash(base) \o url)

\* Lines 80-81 left out: the repo URL is joined as configured.
JoinBaseAsConfigured(repo_url, edit_uri) == repo_url

\* Lines 80-81: the repo URL used as the base of the join.
JoinBase(repo_url, edit_uri) ==
    IF ~StartsWithQueryOrFragment(edit_uri) /\ ~EndsWithSlash(repo_url)
    THEN repo_url \o <<"/">>
    ELSE repo_url

\* `urljoin(urljoin(repo_url, edit_uri), path or "")`: the `path and` guard lost.
EditUrlUnguarded(path, repo_url, edit_uri) ==
    Some(UrlJoin(UrlJoin(JoinBase(repo_url, edit_uri), edit_uri), path.v))

\* Lines 83-85: `path and urljoin(urljoin(repo_url, edit_uri), path)`.
EditUrl(path, repo_url, edit_uri) ==
    IF Truthy(path)
    THEN Some(UrlJoin(UrlJoin(JoinBase(repo_url, edit_uri), edit_uri), path.v))
    ELSE path

\* `if repo_url or edit_uri:` on line 78: one of the two settings is enough.
PageEditUrlEitherSetting(src_path, repo_url, edit_uri, before) ==
    IF src_path \in DOMAIN self_edit_paths /\ (Truthy(repo_url) \/ Truthy(edit_uri))
    THEN EditUrl(self_edit_paths[src_path], repo_url.v, edit_uri.v)
    ELSE before

\* Lines 75-85: page.edit_url after the call.
PageEditUrl(src_path, repo_url, edit_uri, before) ==
    IF src_path \in DOMAIN self_edit_paths /\ Truthy(repo_url) /\ Truthy(edit_uri)
    THEN EditUrl(self_edit_paths[src_path], repo_url.v, edit_uri.v)
    ELSE before

\* `self._edit_paths[src_path]`: the entry is read and left in the registry.
PopEditPathKept(eps, src_path) == eps

\* `self._edit_paths.clear()` once an entry was found.
PopEditPathAll(eps, src_path) ==
    IF src_path \in DOMAIN eps THEN EmptyMap ELSE eps

\* Lines 76-77: the registry after the call.
PopEditPath(eps, src_path) ==
    IF src_path \in DOMAIN eps THEN MapDel(eps, src_path) ELSE eps

\* Line 87: the value on_page_content returns.
PageContentResult(html) == html

\* on_page_content(html, page, config, files) for the page of src_path, whose
\* edit_url is `before`, under a config with repo_url and edit_uri.
OnPageContent(src_path, html, repo_url, edit_uri, before) ==
    /\ pc = "returned"
    /\ rendered' = rendered \cup {src_path}
    /\ self_edit_paths' = PopEditPath(self_edit_paths, src_path)
    /\ lastPage' = [called |-> TRUE, popped |-> src_path \in DOMAIN self_edit_paths,
                    ret |-> PageContentResult(html),
                    edit_url |-> PageEditUrl(src_path, repo_url, edit_uri, before)]
    /\ UNCHANGED <<pc, cur, ops, orig, files, error, ret_files, dirs, build, warnings,
                   self_dir_name, self_should_cleanup>>
    /\ UNCHANGED editorVars
    /\ UNCHANGED scriptVars
    /\ UNCHANGED buildVars

-----------------------------------------------------------------------------
(* on_post_build *)

\* `for k, v in self._edit_paths.items()` without the `if v` filter.
UnusedEditPathsUnfiltered(eps) == eps

\* Line 97: the entries reported as unused.
UnusedEditPaths(eps) == [k \in {q \in DOMAIN eps : Truthy(eps[q])} |-> eps[k]]

\* on_post_build with shutil.rmtree(self._dir_name) called bare, without
\* ignore_errors and outside a try: a removal error leaves the handler before
\* the warning is computed.
OnPostBuildRaising(removed) ==
    /\ pc = "returned"
    /\ IF self_should_cleanup /\ ~removed
       THEN /\ pc' = "post_build_raised"
            /\ UNCHANGED <<dirs, warnings>>
       ELSE /\ pc' = "built"
            /\ dirs' = IF self_should_cleanup THEN dirs \ {self_dir_name} ELSE dirs
            /\ warnings' = IF UnusedEditPaths(self_edit_paths) # EmptyMap
                           THEN Append(warnings, UnusedEditPaths(self_edit_paths))
                           ELSE warnings
    /\ UNCHANGED <<cur, ops, orig, files, error, ret_files, build, rendered, lastPage>>
    /\ UNCHANGED editorVars
    /\ UNCHANGED scriptVars
    /\ UNCHANGED pluginVars
    /\ UNCHANGED buildVars

\* on_post_build(config); `removed` tells whether shutil.rmtree managed to
\* remove the directory (its errors are ignored).
OnPostBuild(removed) ==
    /\ pc = "returned"
    /\ pc' = "built"
    /\ dirs' = IF self_should_cleanup /\ removed THEN dirs \ {self_dir_name} ELSE dirs
    /\ warnings' = IF UnusedEditPaths(self_edit_paths) # EmptyMap
                   THEN Append(warnings, UnusedEditPaths(self_edit_paths))
                   ELSE warnings
    /\ UNCHANGED <<cur, ops, orig, files, error, ret_files, build, rendered, lastPage>>
    /\ UNCHANGED editorVars
    /\ UNCHANGED scriptVars
    /\ UNCHANGED pluginVars
    /\ UNCHANGED buildVars

-----------------------------------------------------------------------------
(* Inputs *)

Directories == {NoneV, Some(<<"gen">>)}
RepoUrls == {NoneV, Some(<<"https://example.com", "/", "repo">>)}
EditUris == {NoneV, Some(<<"edit", "/", "main", "/">>)}
Htmls == {"<p>a</p>", "<p>b</p>"}
HostEditUrls == {NoneV, Some(<<"https://example.com", "/", "host">>)}

\* The inputs of the edit-URL join: repo URLs with no, one and two trailing
\* slashes and without a path; edit URIs that are relative paths, a query, a
\* fragment and an absolute path; edit paths of the scripts.
UrlRepoUrls == {Some(<<"https://example.com", "/", "repo">>),
                Some(<<"https://example.com", "/", "repo", "/">>),
                Some(<<"https://example.com", "/", "repo", "/", "/">>),
                Some(<<"https://example.com">>)}
UrlEditUris == {Some(<<"edit", "/", "main", "/">>),
                Some(<<"blob", "/", "main">>),
                Some(<<"?", "edit=1">>),
                Some(<<"#", "L1">>),
                Some(<<"/", "edit", "/">>)}
UrlHtml == "<p>a</p>"
UrlEditPathValues == {NoneV, Some(<<>>), Some(<<"docs", "/", "x.md">>), Some(<<"x.md">>),
                      Some(<<"/", "abs.md">>)}

\* The steps of on_files with every input the scripts may give.
NextRun ==
    \/ \E d \in Directories, c \in BOOLEAN : OnFilesEnter(d, c)
    \/ \E p \in Paths, c \in Contents : ops < MaxOps /\ ScriptWrite(p, c)
    \/ \E p \in Paths, v \in EditPathValues : ops < MaxOps /\ ScriptSetEditPath(p, v)
    \/ \E raw \in RawPaths, c \in Contents : ops < MaxOps /\ ScriptOpen(raw, c)
    \/ ScriptReturn
    \/ \E code \in ExitCodes : ScriptExit(code)
    \/ ScriptRaise
    \/ \E b \in BOOLEAN : FilesEditorExit(b)
    \/ OnFilesFinish

SpecRun == Init /\ [][NextRun]_vars

\* A whole build: on_files, then on_page_content for any pages of the returned
\* collection in any order, then on_post_build. The scripts may write the new
\* page c.md and set the edit paths of a page of the host (a.md) and of c.md,
\* which is a page of the build only when it was written.
Next ==
    \/ \E d \in Directories, c \in BOOLEAN : OnFilesEnter(d, c)
    \/ ops < MaxBuildOps /\ ScriptWrite("c.md", "v1")
    \/ \E p \in {"a.md", "c.md"}, v \in EditPathValues :
          ops < MaxBuildOps /\ ScriptSetEditPath(p, v)
    \/ ScriptReturn
    \/ \E code \in ExitCodes : ScriptExit(code)
    \/ ScriptRaise
    \/ \E b \in BOOLEAN : FilesEditorExit(b)
    \/ OnFilesFinish
    \/ \E p \in SrcUris(ret_files), h \in Htmls, r \in RepoUrls, e \in EditUris,
          u \in HostEditUrls : OnPageContent(p, h, r, e, u)
    \/ \E removed \in BOOLEAN : OnPostBuild(removed)

Spec == Init /\ [][Next]_vars

\* A build whose scripts set the edit path of the host's page a.md, rendered
\* under every configuration of repo URL and edit URI.
NextUrl ==
    \/ \E d \in Directories, c \in BOOLEAN : OnFilesEnter(d, c)
    \/ \E v \in UrlEditPathValues : ops < MaxBuildOps /\ ScriptSetEditPath("a.md", v)
    \/ ScriptReturn
    \/ \E code \in ExitCodes : ScriptExit(code)
    \/ ScriptRaise
    \/ \E b \in BOOLEAN : FilesEditorExit(b)
    \/ OnFilesFinish
    \/ \E p \in SrcUris(ret_files), r \in UrlRepoUrls, e \in UrlEditUris :
          OnPageContent(p, UrlHtml, r, e, NoneV)
    \/ \E removed \in BOOLEAN : OnPostBuild(removed)

SpecUrl == Init /\ [][NextUrl]_vars

\* Runs of on_files one after the other on one plugin instance, each into a
\* fresh copy of the host's collection. The scripts write a.md (a page of the
\* host) and c.md; a script may call on_files itself.
NextTwice ==
    \/ \E d \in Directories, c \in BOOLEAN : OnFilesEnter(d, c)
    \/ \E p \in {"a.md", "c.md"}, c \in Contents : ops < MaxBuildOps /\ ScriptWrite(p, c)
    \/ \E d \in Directories, c \in BOOLEAN : build < MaxBuilds /\ OnFilesNested(d, c)
    \/ ScriptReturn
    \/ \E code \in ExitCodes : ScriptExit(code)
    \/ ScriptRaise
    \/ \E b \in BOOLEAN : FilesEditorExit(b)
    \/ OnFilesFinish
    \/ \E removed \in BOOLEAN : OnPostBuild(removed)
    \/ build < MaxBuilds /\ NewBuild

SpecTwice == Init /\ [][NextTwice]_vars

\* The configuration of the rendered pages in a sequence of builds.
BuildRepoUrl == Some(<<"https://example.com", "/", "repo">>)
BuildEditUri == Some(<<"edit", "/", "main", "/">>)

\* Whole builds one after the other on one plugin instance. The scripts set
\* the edit paths of a.md, a page of the host, and of c.md, which no script
\* writes: its entry is never consumed.
NextBuilds ==
    \/ \E d \in Directories, c \in BOOLEAN : OnFilesEnter(d, c)
    \/ \E p \in {"a.md", "c.md"}, v \in {NoneV, Some(<<"src", "/", "gen.py">>)} :
          ops < MaxBuildOps /\ ScriptSetEditPath(p, v)
    \/ ScriptReturn
    \/ \E code \in ExitCodes : ScriptExit(code)
    \/ ScriptRaise
    \/ \E b \in BOOLEAN : FilesEditorExit(b)
    \/ OnFilesFinish
    \/ \E p \in SrcUris(ret_files) :
          OnPageContent(p, UrlHtml, BuildRepoUrl, BuildEditUri, NoneV)
    \/ \E removed \in BOOLEAN : OnPostBuild(removed)
    \/ build < MaxBuilds /\ NewBuild

SpecBuilds == Init /\ [][NextBuilds]_vars

-----------------------------------------------------------------------------
(* Properties of on_files *)

FullContextTrace == <<"Idle", "Active", "Finalizing", "Closed">>
IsPrefix(a, b) == Len(a) <= Len(b) /\ a = SubSeq(b, 1, Len(a))

\* The final file collection: the one on_files returns; when on_files raises,
\* the one FilesEditor holds after its exit step.
HasFinal == pc \in {"returned", "raised", "built"}
Final == IF pc = "raised" THEN ed_files ELSE ret_files

\* The positions of logical path p in collection coll.
Positions(coll, p) == { i \in DOMAIN coll : coll[i].src_uri = p }

\* The touched paths the host's collection did not have, in first-write order.
IsNewPath(p) == p \notin SrcUris(orig)
NewTouched == SelectSeq(touched, IsNewPath)

\* C1: the scripts run one at a time in list order; when script i asks to
\* terminate with a truthy status, on_files fails with a PluginError naming
\* script i and no script after i is started.
C1_TruthyExitAborts ==
    /\ \A i \in DOMAIN scripts :
          outcome[i] # "none" => \A j \in 1..(i - 1) : outcome[j] = "ok"
    /\ \A i, j \in DOMAIN scripts :
          outcome[i] = "running" /\ outcome[j] = "running" => i = j
    /\ \A i \in DOMAIN scripts :
          outcome[i] = "exit1" =>
             /\ error = [kind |-> "PluginError", script |-> scripts[i]]
             /\ pc \in {"exit", "finalizing", "raised"}
             /\ \A j \in DOMAIN scripts : j > i => outcome[j] = "none"

C1_Witness ==
    /\ pc = "raised"
    /\ outcome[1] = "exit1"
    /\ outcome[2] = "none"
    /\ error.script = "gen_a.py"

\* C2: a script that asks to terminate with a falsy status is a success: no
\* error is raised, the script after it is started (the with block is left
\* without an error after the last one), and when on_files returns, the
\* files such scripts wrote are in the collection it returns.
C2_FalsyExitSucceeds ==
    [][ /\ \A code \in FalsyExitCodes :
             ScriptExit(code) =>
                /\ error' = NoError
                /\ outcome'[cur] = "ok"
                /\ curWrites \subseteq zeroExitWrites'
                /\ IF cur < Len(scripts)
                   THEN pc' = "script" /\ cur' = cur + 1 /\ outcome'[cur'] = "running"
                   ELSE pc' = "exit"
        /\ pc' = "returned" =>
              /\ error' = NoError
              /\ \A p \in zeroExitWrites' :
                    \E i \in DOMAIN ret_files' :
                       ret_files'[i].src_uri = p /\ ret_files'[i].origin = "generated"
      ]_vars

C2_Witness ==
    /\ pc = "returned"
    /\ zeroExitWrites = {"a.md", "c.md"}
    /\ touched = <<"c.md", "a.md">>
    /\ outcome = [i \in DOMAIN scripts |-> "ok"]

\* C3: on every path of a run the context goes Idle, Active, Finalizing,
\* Closed, through Finalizing exactly once; a failed script skips the scripts
\* after it but not Finalizing, and the context is Closed when on_files
\* returns or raises.
C3_ExitAlwaysRuns ==
    /\ IsPrefix(ctxTrace, FullContextTrace)
    /\ ctx = ctxTrace[Len(ctxTrace)]
    /\ pc \in {"returned", "raised", "built"} =>
          /\ ctxTrace = FullContextTrace
          /\ ctx = "Closed"
    /\ \A i \in DOMAIN scripts :
          outcome[i] \in {"exit1", "raised"} =>
             /\ \A j \in DOMAIN scripts : j > i => outcome[j] = "none"
             /\ pc # "returned"

C3_Witness ==
    /\ pc = "raised"
    /\ outcome[1] = "raised"
    /\ touched # <<>>
    /\ ctxTrace = FullContextTrace

\* C4: every logical path written during the run is in the final collection
\* exactly once, as a generated file whose content is the last write to it.
C4_LastWriteWins ==
    HasFinal =>
       \A p \in Range(touched) :
          /\ Cardinality(Positions(Final, p)) = 1
          /\ \A i \in Positions(Final, p) :
                /\ Final[i].content = staged[p]
                /\ Final[i].origin = "generated"

C4_Witness ==
    /\ pc = "returned"
    /\ touched = <<"a.md", "c.md">>
    /\ ops = 3
    /\ staged["a.md"] = "v2"

\* C5 as stated: every entry of the host's collection whose path was never
\* written is in the final collection at the same position and unmodified.
C5_UntouchedUnmodified ==
    HasFinal =>
       \A i \in DOMAIN orig :
          orig[i].src_uri \notin Range(touched) =>
             i \in DOMAIN Final /\ Final[i] = orig[i]

\* C5 amended: every entry of the host's collection whose path was never
\* written is in the final collection at the same position with the same
\* identity and content; its edit_uri is the edit path the scripts set for its
\* path when on_files returns and that edit path is not None, and is
\* unchanged otherwise.
C5_UntouchedKeptUpToEditUri ==
    HasFinal =>
       \A i \in DOMAIN orig :
          orig[i].src_uri \notin Range(touched) =>
             /\ i \in DOMAIN Final
             /\ Final[i].src_uri = orig[i].src_uri
             /\ Final[i].origin = orig[i].origin
             /\ Final[i].content = orig[i].content
             /\ Final[i].edit_uri =
                   IF /\ pc = "returned"
                      /\ orig[i].src_uri \in DOMAIN ed_edit_paths
                      /\ ed_edit_paths[orig[i].src_uri] # NoneV
                   THEN ed_edit_paths[orig[i].src_uri]
                   ELSE orig[i].edit_uri

C5_Witness ==
    /\ pc = "returned"
    /\ Len(orig) = 2
    /\ touched = <<"b.md">>
    /\ "a.md" \in DOMAIN ed_edit_paths
    /\ Truthy(ed_edit_paths["a.md"])

\* C6: in the final collection the entries of the host's collection keep
\* their positions, touched or not, and the touched paths the host did not
\* have follow them in the order of their first writes.
C6_PositionsAndAppendOrder ==
    HasFinal =>
       /\ Len(Final) = Len(orig) + Len(NewTouched)
       /\ \A i \in DOMAIN orig : Final[i].src_uri = orig[i].src_uri
       /\ \A k \in DOMAIN NewTouched : Final[Len(orig) + k].src_uri = NewTouched[k]

C6_Witness ==
    /\ pc = "returned"
    /\ Len(orig) = 1
    /\ touched = <<"c.md", "b.md">>
    /\ ops = 3
    /\ staged["c.md"] = "v2"

\* C14: when script i raises an error that is not a termination request,
\* on_files raises that error itself, not a PluginError; no script after i is
\* started; the exit step still reconciles every path written before the
\* error into the editor's collection, and on_files returns nothing.
C14_ScriptErrorPropagates ==
    \A i \in DOMAIN scripts :
       outcome[i] = "raised" =>
          /\ error = [kind |-> "ScriptError", script |-> scripts[i]]
          /\ \A j \in DOMAIN scripts : j > i => outcome[j] = "none"
          /\ pc \in {"exit", "finalizing", "raised"}
          /\ ret_files = <<>>
          /\ self_edit_paths = EmptyMap
          /\ pc \in {"finalizing", "raised"} =>
                \A p \in Range(touched) :
                   /\ Cardinality(Positions(ed_files, p)) = 1
                   /\ \A k \in Positions(ed_files, p) :
                         /\ ed_files[k].content = staged[p]
                         /\ ed_files[k].origin = "generated"

\* The second script failed after the first had written a new file and the
\* second had overwritten a file of the host.
C14_Witness ==
    /\ pc = "raised"
    /\ outcome = <<"ok", "raised">>
    /\ error = [kind |-> "ScriptError", script |-> "gen_b.py"]
    /\ touched = <<"c.md", "a.md">>
    /\ Len(ed_files) = Len(orig) + 1

\* C16: opening a path that normalizes outside the overlay root fails with
\* PathEscapeError, which on_files lets through naming no other error; the
\* call leaves the touched paths, the staged contents, the edit paths and the
\* file collections as they were, and no later step brings the path into a
\* collection: the exit step reconciles the paths written before, and those
\* only.
C16_PathEscapeRejected ==
    [][ /\ \A raw \in RawPaths, c \in Contents :
             ScriptOpen(raw, c) /\ Normalize(raw).escapes =>
                /\ error' = [kind |-> "PathEscapeError", script |-> scripts[cur]]
                /\ outcome'[cur] = "escaped"
                /\ pc' = "exit"
                /\ UNCHANGED <<touched, staged, ed_edit_paths, files, ed_files, ret_files>>
        /\ \A i \in DOMAIN scripts :
             outcome'[i] = "escaped" =>
                /\ error'.kind = "PathEscapeError"
                /\ pc' \in {"exit", "finalizing", "raised"}
                /\ \A j \in DOMAIN scripts : j > i => outcome'[j] = "none"
                /\ UNCHANGED <<touched, staged>>
                /\ SrcUris(ed_files') \subseteq SrcUris(orig) \cup Range(touched)
      ]_vars

\* The second script failed to open a path outside the root after a.md and
\* c.md had been written; both are reconciled, the path outside is not.
C16_Witness ==
    /\ pc = "raised"
    /\ outcome = <<"ok", "escaped">>
    /\ error = [kind |-> "PathEscapeError", script |-> "gen_b.py"]
    /\ touched = <<"a.md", "c.md">>
    /\ SrcUris(ed_files) = SrcUris(orig) \cup {"c.md"}

C18_TempDirRemovedOnEveryExit ==
    (pc \in {"built", "raised"} /\ self_should_cleanup) => self_dir_name \notin dirs

-----------------------------------------------------------------------------
(* Properties of on_page_content and on_post_build *)

\* The paths whose edit path the scripts set to a value that is not None.
NonNullEditPaths == { p \in DOMAIN ed_edit_paths : ed_edit_paths[p] # NoneV }

\* The paths whose edit path the scripts set to a non-empty string.
TruthyEditPaths == { p \in DOMAIN ed_edit_paths : Truthy(ed_edit_paths[p]) }

\* The paths whose edit path was set to None or was never set.
NoEditPathIn(eps, p) == p \notin DOMAIN eps \/ eps[p] = NoneV
NoEditPath(p) == NoEditPathIn(ed_edit_paths, p)

\* The pages a step may be an on_page_content call for: none unless the build
\* is in its page phase, and then those whose rendering gives the step's set
\* of rendered pages.
PagesOfStep ==
    IF pc = "returned" /\ pc' = "returned"
    THEN { p \in Paths : rendered' = rendered \cup {p} }
    ELSE {}

\* The html values a step may be an on_page_content call with: those whose
\* result is the value the step returns.
HtmlsOfStep == { h \in Htmls : lastPage'.ret = PageContentResult(h) }

\* C7 as stated: after on_post_build, the registry entries with a non-None
\* value that no page render consumed are what the single warning lists, and
\* there is no warning when there is no such entry.
C7_UnusedNonNullWarned ==
    pc = "built" =>
       IF NonNullEditPaths \ rendered = {}
       THEN warnings = <<>>
       ELSE Len(warnings) = 1 /\ DOMAIN warnings[1] = NonNullEditPaths \ rendered

\* C7 amended: after on_post_build, the registry entries with a non-None and
\* non-empty value that no page render consumed are what the single warning
\* lists, each with its edit path, and there is no warning when there is no
\* such entry.
C7_UnusedTruthyWarned ==
    pc = "built" =>
       IF TruthyEditPaths \ rendered = {}
       THEN warnings = <<>>
       ELSE /\ Len(warnings) = 1
            /\ DOMAIN warnings[1] = TruthyEditPaths \ rendered
            /\ \A p \in DOMAIN warnings[1] : warnings[1][p] = ed_edit_paths[p]

C7_Witness ==
    /\ pc = "built"
    /\ rendered = {"a.md"}
    /\ "a.md" \in TruthyEditPaths
    /\ Len(warnings) = 1
    /\ DOMAIN warnings[1] = {"c.md"}

\* C8: each registry entry is consumed at most once. A call of
\* on_page_content for path p leaves the registry without an entry for p,
\* whatever the configuration, and adds none; a call for a path without an
\* entry changes neither the registry nor the page's edit URL; a path that
\* was rendered has no entry and is not listed in the post-build warning.
C8_ConsumedAtMostOnce ==
    [][ /\ \A p \in PagesOfStep, h \in HtmlsOfStep, r \in RepoUrls, e \in EditUris,
              u \in HostEditUrls :
             OnPageContent(p, h, r, e, u) =>
                /\ p \notin DOMAIN self_edit_paths'
                /\ DOMAIN self_edit_paths' \subseteq DOMAIN self_edit_paths
                /\ p \notin DOMAIN self_edit_paths =>
                      /\ self_edit_paths' = self_edit_paths
                      /\ lastPage'.edit_url = u
        /\ rendered' \cap DOMAIN self_edit_paths' = {}
        /\ \A k \in DOMAIN warnings' : DOMAIN warnings'[k] \cap rendered' = {}
      ]_vars

C8_Witness ==
    /\ pc = "built"
    /\ rendered = {"a.md", "b.md"}
    /\ TruthyEditPaths = {"a.md", "c.md"}
    /\ lastPage.edit_url = Some(<<"https://example.com", "/", "repo", "/",
                                   "edit", "/", "main", "/", "src", "/", "gen.py">>)
    /\ Len(warnings) = 1
    /\ DOMAIN warnings[1] = {"c.md"}

\* C9: for a path whose edit path was set to None or never set, the plugin
\* assigns no edit URI to its file in on_files (in the returned collection and
\* in the host's), and on_page_content leaves its page's edit URL as it was or
\* sets it to None.
C9_NoEditUrlWithoutEditPath ==
    [][ /\ \A p \in PagesOfStep, h \in HtmlsOfStep, r \in RepoUrls, e \in EditUris,
              u \in HostEditUrls :
             OnPageContent(p, h, r, e, u) /\ NoEditPath(p) =>
                /\ lastPage'.edit_url \in {u, NoneV}
                /\ p \notin DOMAIN ed_edit_paths => lastPage'.edit_url = u
        /\ pc' \in {"returned", "built"} =>
              /\ \A i \in DOMAIN ret_files' :
                    NoEditPathIn(ed_edit_paths', ret_files'[i].src_uri) =>
                       ret_files'[i].edit_uri = NoneV
              /\ \A i \in DOMAIN files' :
                    NoEditPathIn(ed_edit_paths', files'[i].src_uri) =>
                       files'[i].edit_uri = NoneV
      ]_vars

C9_Witness ==
    /\ pc = "returned"
    /\ rendered = {"a.md", "c.md"}
    /\ "a.md" \in DOMAIN ed_edit_paths
    /\ ed_edit_paths["a.md"] = NoneV
    /\ "c.md" \notin DOMAIN ed_edit_paths
    /\ lastPage.edit_url = NoneV

\* C10: on_page_content returns the html it was given; it changes nothing but
\* the page's edit URL and the registry entry of the page's own path.
C10_PageContentFrame ==
    [][ \A p \in PagesOfStep, h \in HtmlsOfStep, r \in RepoUrls, e \in EditUris,
            u \in HostEditUrls :
           OnPageContent(p, h, r, e, u) =>
              /\ lastPage'.ret = h
              /\ \A q \in Paths \ {p} :
                    /\ q \in DOMAIN self_edit_paths' <=> q \in DOMAIN self_edit_paths
                    /\ q \in DOMAIN self_edit_paths => self_edit_paths'[q] = self_edit_paths[q]
              /\ UNCHANGED <<files, ed_files, ret_files, ed_edit_paths, dirs, warnings,
                             self_dir_name, self_should_cleanup>>
      ]_vars

C10_Witness ==
    /\ pc = "returned"
    /\ rendered = {"a.md"}
    /\ lastPage.ret = "<p>b</p>"
    /\ DOMAIN ed_edit_paths = {"a.md", "c.md"}
    /\ DOMAIN self_edit_paths = {"c.md"}

\* C11: when the configuration has no repo URL or no edit URI, a call of
\* on_page_content completes (it returns the html) and the page's edit URL is
\* what it was before the call, for every page, with or without a registry
\* entry, whatever the entry's value.
C11_MissingConfigNoEditLink ==
    [][ \A p \in PagesOfStep, h \in HtmlsOfStep, r \in RepoUrls, e \in EditUris,
            u \in HostEditUrls :
           OnPageContent(p, h, r, e, u) /\ (r = NoneV \/ e = NoneV) =>
              /\ lastPage'.edit_url = u
              /\ lastPage'.called
              /\ lastPage'.ret = h
              /\ pc' = "returned"
      ]_vars

\* The last call popped the non-empty entry of a.md and the page still has the
\* edit URL the host gave it: the configuration of that call was incomplete.
C11_Witness ==
    /\ pc = "returned"
    /\ rendered = {"a.md"}
    /\ "a.md" \in TruthyEditPaths
    /\ lastPage.popped
    /\ lastPage.edit_url = Some(<<"https://example.com", "/", "host">>)

\* C12 as stated: on_files leaves the staging directory on disk and decides the
\* cleanup (a configured directory is created and never cleaned, a temporary
\* one is cleaned when `cleanup` is true); nothing touches the directory until
\* on_post_build, which removes it if and only if the cleanup was decided.
C12_RemovedIffCleanup ==
    [][ /\ \A d \in Directories, c \in BOOLEAN :
             OnFilesEnter(d, c) =>
                /\ self_dir_name' \in dirs'
                /\ self_should_cleanup' = (d = NoneV /\ c)
                /\ d # NoneV => self_dir_name' = CustomDir(d.v)
        /\ pc # "idle" /\ pc' # "built" =>
              UNCHANGED <<self_dir_name, self_should_cleanup, dirs>>
        /\ \A removed \in BOOLEAN :
             OnPostBuild(removed) =>
                /\ self_dir_name \in dirs
                /\ self_dir_name \notin dirs' <=> self_should_cleanup
      ]_vars

\* C12 amended: as above, but on_post_build removes the directory if and only
\* if the cleanup was decided and shutil.rmtree manages to remove it; a removal
\* that fails leaves the directory in place.
C12_RemovedIffCleanupSucceeds ==
    [][ /\ \A d \in Directories, c \in BOOLEAN :
             OnFilesEnter(d, c) =>
                /\ self_dir_name' \in dirs'
                /\ self_should_cleanup' = (d = NoneV /\ c)
                /\ d # NoneV => self_dir_name' = CustomDir(d.v)
        /\ pc # "idle" /\ pc' # "built" =>
              UNCHANGED <<self_dir_name, self_should_cleanup, dirs>>
        /\ \A removed \in BOOLEAN :
             OnPostBuild(removed) =>
                /\ self_dir_name \in dirs
                /\ self_dir_name \notin dirs' <=> (self_should_cleanup /\ removed)
                /\ dirs' \subseteq dirs
                /\ dirs \ dirs' \subseteq {self_dir_name}
      ]_vars

\* A build whose temporary directory on_post_build removed.
C12_Witness ==
    /\ pc = "built"
    /\ self_dir_name = TempDir(1)
    /\ self_should_cleanup
    /\ dirs = {}

\* The registry entries on_post_build finds: those with a non-empty edit path.
PendingEditPaths == { p \in DOMAIN self_edit_paths : Truthy(self_edit_paths[p]) }

\* C13: on_post_build completes whether or not the removal of the staging
\* directory succeeds: it raises nothing, and the warning it emits (or its
\* absence) is decided by the registry alone, the same after a removal that
\* succeeded, one that failed and none at all.
C13_RemovalFailureHarmless ==
    [][ \A removed \in BOOLEAN :
           OnPostBuild(removed) =>
              /\ pc' = "built"
              /\ error' = NoError
              /\ warnings' = IF PendingEditPaths = {}
                             THEN warnings
                             ELSE Append(warnings,
                                         [p \in PendingEditPaths |-> self_edit_paths[p]])
              /\ UNCHANGED <<self_edit_paths, ret_files, files>>
      ]_vars

\* A finished build whose temporary directory should have been removed and
\* is still on disk, with the warning emitted.
C13_Witness ==
    /\ pc = "built"
    /\ self_should_cleanup
    /\ self_dir_name \in dirs
    /\ Len(warnings) = 1
    /\ DOMAIN warnings[1] = {"c.md"}

\* The number of "/" tokens a URL ends with.
RECURSIVE TrailingSlashes(_)
TrailingSlashes(s) ==
    IF EndsWithSlash(s) THEN 1 + TrailingSlashes(SubSeq(s, 1, Len(s) - 1)) ELSE 0

\* The repo URL with a slash appended unless it ends with one.
WithSlash(r) == IF EndsWithSlash(r) THEN r ELSE r \o <<"/">>

\* Results of urllib.parse.urljoin for the example of the design document
\* (repo https://example.com/repo, edit URI edit/main/, path docs/x.md) and
\* for an edit URI without a final slash, a query and a repo URL that ends
\* with two slashes: <<repo URL, edit URI, edit path, edit URL>>.
EditUrlExamples ==
    { << <<"https://example.com", "/", "repo">>, <<"edit", "/", "main", "/">>,
         <<"docs", "/", "x.md">>,
         <<"https://example.com", "/", "repo", "/", "edit", "/", "main", "/",
           "docs", "/", "x.md">> >>,
      << <<"https://example.com", "/", "repo">>, <<"blob", "/", "main">>,
         <<"docs", "/", "x.md">>,
         <<"https://example.com", "/", "repo", "/", "blob", "/", "docs", "/", "x.md">> >>,
      << <<"https://example.com", "/", "repo">>, <<"?", "edit=1">>,
         <<"x.md">>,
         <<"https://example.com", "/", "x.md">> >>,
      << <<"https://example.com", "/", "repo", "/", "/">>, <<"edit", "/", "main", "/">>,
         <<"x.md">>,
         <<"https://example.com", "/", "repo", "/", "edit", "/", "main", "/", "x.md">> >> }

\* C15 as stated: in a call that pops an edit path under a configuration with
\* repo URL r and edit URI e, the base of the join ends with exactly one slash
\* when e does not start with ? or #, and is r when it does; the page's edit
\* URL is the popped path resolved against e resolved against that base.
C15_JoinExactlyOneSlash ==
    [][ \A p \in PagesOfStep, r \in UrlRepoUrls, e \in UrlEditUris :
           /\ OnPageContent(p, UrlHtml, r, e, NoneV)
           /\ p \in DOMAIN self_edit_paths
           /\ self_edit_paths[p] # NoneV
           => /\ ~StartsWithQueryOrFragment(e.v) =>
                    TrailingSlashes(JoinBase(r.v, e.v)) = 1
              /\ StartsWithQueryOrFragment(e.v) => JoinBase(r.v, e.v) = r.v
              /\ lastPage'.edit_url =
                    Some(UrlJoin(UrlJoin(IF StartsWithQueryOrFragment(e.v)
                                         THEN r.v ELSE WithSlash(r.v), e.v),
                                 self_edit_paths[p].v))
      ]_vars

\* C15 amended: the base of the join is r with a slash appended unless r ends
\* with one already (trailing slashes of r are kept, however many) when e does
\* not start with ? or #, and is r when it does; for a non-empty popped path
\* the page's edit URL is the path resolved against e resolved against that
\* base, and an empty popped path is the edit URL itself. The join gives the
\* URLs urllib.parse.urljoin gives for the examples.
C15_JoinAtLeastOneSlash ==
    [][ /\ \A p \in PagesOfStep, r \in UrlRepoUrls, e \in UrlEditUris :
             /\ OnPageContent(p, UrlHtml, r, e, NoneV)
             /\ p \in DOMAIN self_edit_paths
             /\ self_edit_paths[p] # NoneV
             => /\ ~StartsWithQueryOrFragment(e.v) =>
                      /\ JoinBase(r.v, e.v) = WithSlash(r.v)
                      /\ TrailingSlashes(JoinBase(r.v, e.v)) >= 1
                      /\ TrailingSlashes(r.v) <= 1 =>
                            TrailingSlashes(JoinBase(r.v, e.v)) = 1
                /\ StartsWithQueryOrFragment(e.v) => JoinBase(r.v, e.v) = r.v
                /\ lastPage'.edit_url =
                      IF self_edit_paths[p].v = <<>>
                      THEN Some(<<>>)
                      ELSE Some(UrlJoin(UrlJoin(IF StartsWithQueryOrFragment(e.v)
                                                THEN r.v ELSE WithSlash(r.v), e.v),
                                        self_edit_paths[p].v))
        /\ \A x \in EditUrlExamples : EditUrl(Some(x[3]), x[1], x[2]) = Some(x[4])
      ]_vars

\* The page of a.md was given the edit URL of the design document's example.
C15_Witness ==
    /\ pc = "returned"
    /\ lastPage.popped
    /\ rendered = {"a.md"}
    /\ ed_edit_paths["a.md"] = Some(<<"docs", "/", "x.md">>)
    /\ lastPage.edit_url = Some(<<"https://example.com", "/", "repo", "/", "edit", "/",
                                   "main", "/", "docs", "/", "x.md">>)

-----------------------------------------------------------------------------
(* Properties of the edit-path registry over several builds *)

\* C20: a successful on_files leaves the plugin's registry equal to the edit
\* paths recorded during that run, whatever an earlier build left in it; a
\* failed on_files leaves the registry as it was before the call; no other
\* step of on_files changes the registry; and neither on_page_content nor
\* on_post_build changes the run context's own mapping.
C20_RegistryIsCopyOfRun ==
    [][ /\ (pc = "finalizing" /\ error = NoError) =>
              pc' = "returned" /\ self_edit_paths' = ed_edit_paths
        /\ (pc = "finalizing" /\ error # NoError) =>
              pc' = "raised" /\ self_edit_paths' = self_edit_paths
        /\ pc \in {"idle", "script", "exit"} => self_edit_paths' = self_edit_paths
        /\ pc = "returned" => ed_edit_paths' = ed_edit_paths
        /\ pc' = "raised" => self_edit_paths' = prev'.registry
      ]_vars

\* The first build left the edit path of c.md unconsumed; the second build's
\* on_files has returned having recorded an edit path for a.md only, and the
\* registry holds that and nothing else.
C20_Witness ==
    /\ pc = "returned"
    /\ rendered = {}
    /\ prev.some
    /\ "c.md" \in DOMAIN prev.registry
    /\ Truthy(prev.registry["c.md"])
    /\ DOMAIN ed_edit_paths = {"a.md"}
    /\ self_edit_paths = ed_edit_paths

====
